---- MODULE Spec2Model ----
(***************************************************************************)
(* Supabase CRUD tool (src/app.py, src/config.py): the configuration       *)
(* check, the store facade functions and the add-record and bulk-upload    *)
(* tabs of the Streamlit script.  Every user interaction re-runs the script from the   *)
(* top; widget values live in the session between runs, a button is True   *)
(* only in the run its click caused.                                       *)
(***************************************************************************)
EXTENDS Integers, Sequences, FiniteSets, TLC

VARIABLES
    SUPABASE_URL,    \* config.py:11, "None" when the variable is unset
    SUPABASE_KEY,    \* config.py:12
    supabase,        \* the st.cache_resource entry of init_supabase: "None" or the client
    n_created,       \* how many times create_client was called
    pc,              \* "start", "stopped" (st.stop) or "main" (the script ran main())
    table,           \* rows the remote store holds for the table
    table_name,      \* sidebar text input
    uploaded_file,   \* file uploader widget
    map_columns,     \* checkbox "Map columns manually"
    column_mapping,  \* the selectboxes map_<file_col>
    remove_empty,    \* checkbox "Remove rows with empty values"
    limit_widget,    \* number input "Limit rows to upload": its max_value and value
    button,          \* the button whose click caused the last run
    stage,           \* how far the bulk-upload tab got in the last run
    add_stage,       \* how far the add-record tab got in the last run
    df_source,       \* the frame the cleaner received, as it is after the cleaner ran
    df_upload,       \* the frame bound to df_upload at line 434
    calls,           \* remote calls issued by the last run or facade call, in order
    shown,           \* messages init_supabase, tabs 2 and 5 or the facade call showed
    upload_result,   \* what bulk_insert_records returned in the last run, if called
    persisted,       \* how many records the store kept of the last bulk insert
    last,            \* the last facade call: operation, arguments, outcome
    ret              \* the value the last facade call returned (in a script run:
                     \* insert_record at line 218, if called)

vars == <<SUPABASE_URL, SUPABASE_KEY, supabase, n_created, pc, table, table_name,
          uploaded_file, map_columns, column_mapping, remove_empty, limit_widget,
          button, stage, add_stage, df_source, df_upload, calls, shown,
          upload_result, persisted, last, ret>>

config_vars == <<SUPABASE_URL, SUPABASE_KEY>>
widget_vars == <<table_name, uploaded_file, map_columns, column_mapping,
                 remove_empty, limit_widget>>
tab_vars == <<button, stage, add_stage, df_source, df_upload, upload_result>>

(***************************************************************************)
(* Bounds of the model.                                                    *)
(***************************************************************************)
MaxFileRows == 2
MaxTableRows == 2
MaxLimit == 3

(***************************************************************************)
(* Values.                                                                 *)
(***************************************************************************)
None == "None"
NaN == "NaN"
Returned == ""
ErrMsgs == {"timeout"}
Outcomes == {Returned} \cup ErrMsgs

Range(s) == {s[i] : i \in DOMAIN s}
Min(a, b) == IF a < b THEN a ELSE b

SeqsUpTo(S, n) == UNION {[1..k -> S] : k \in 0..n}

TableCols == <<"name", "email">>
FileHeaders == {<<"name", "extra">>, <<"name", "email">>}
FileColNames == UNION {Range(h) : h \in FileHeaders}
CellValues(c) == IF c = "name" THEN {NaN, "a"} ELSE {NaN, "x"}

EmptyFrame == [cols |-> <<>>, rows |-> <<>>]
NoFile == [present |-> FALSE, cols |-> <<>>, rows |-> <<>>]

FileRows(h) == {r \in [Range(h) -> {NaN, "a", "x"}] :
                  \A c \in Range(h) : r[c] \in CellValues(c)}
Files == UNION {{[present |-> TRUE, cols |-> h, rows |-> rs] :
                    rs \in SeqsUpTo(FileRows(h), MaxFileRows)} : h \in FileHeaders}
         \cup {[present |-> TRUE, cols |-> <<>>, rows |-> <<>>]}

StoreRows == [Range(TableCols) -> {"a", "b"}]

(***************************************************************************)
(* config.py                                                               *)
(***************************************************************************)
Falsy(s) == s = None \/ s = ""

validate_config_and ==
    IF Falsy(SUPABASE_URL) /\ Falsy(SUPABASE_KEY)
    THEN <<FALSE, "Missing Supabase credentials. Please set SUPABASE_URL and SUPABASE_KEY in .env file">>
    ELSE <<TRUE, "Configuration valid">>

validate_config ==
    IF Falsy(SUPABASE_URL) \/ Falsy(SUPABASE_KEY)
    THEN <<FALSE, "Missing Supabase credentials. Please set SUPABASE_URL and SUPABASE_KEY in .env file">>
    ELSE <<TRUE, "Configuration valid">>

create_client(url, key) == "client"

\* @st.cache_resource: the body runs only while no client is cached; st.stop()
\* ends the run and caches nothing.
init_supabase(cache) ==
    IF cache # None
    THEN [stopped |-> FALSE, client |-> cache, created |-> 0, shown |-> <<>>]
    ELSE LET v == validate_config IN
         IF ~v[1]
         THEN [stopped |-> TRUE, client |-> None, created |-> 0,
               shown |-> <<[kind |-> "error", text |-> v[2]]>>]
         ELSE [stopped |-> FALSE, client |-> create_client(SUPABASE_URL, SUPABASE_KEY),
               created |-> 1, shown |-> <<>>]

(***************************************************************************)
(* pandas: a frame is its column list and its rows; a method returns the   *)
(* receiver as the call leaves it (self) and the frame it returns (out).   *)
(***************************************************************************)
NotNull(r) == \A c \in DOMAIN r : r[c] # NaN

dropna_inplace(df) ==
    LET kept == [cols |-> df.cols, rows |-> SelectSeq(df.rows, NotNull)]
    IN [self |-> kept, out |-> kept]

dropna(df) ==
    [self |-> df, out |-> [cols |-> df.cols, rows |-> SelectSeq(df.rows, NotNull)]]

head(df, n) ==
    [self |-> df, out |-> [cols |-> df.cols, rows |-> SubSeq(df.rows, 1, Min(n, Len(df.rows)))]]

to_dict_records(df) == [i \in 1..Len(df.rows) |-> df.rows[i]]

\* pd.read_csv: a file without a header line raises EmptyDataError
read_csv(file) ==
    IF file.cols = <<>>
    THEN [raised |-> TRUE, exc |-> "No columns to parse from file", out |-> EmptyFrame]
    ELSE [raised |-> FALSE, exc |-> "", out |-> [cols |-> file.cols, rows |-> file.rows]]

\* mapped_df[table_col] = df_upload[file_col]
setitem(frame, col, src, file_col) ==
    IF frame.cols = <<>>
    THEN [cols |-> <<col>>,
          rows |-> [i \in 1..Len(src.rows) |-> (col :> src.rows[i][file_col])]]
    ELSE [cols |-> IF col \in Range(frame.cols) THEN frame.cols ELSE Append(frame.cols, col),
          rows |-> [i \in 1..Len(frame.rows) |->
                       [c \in (DOMAIN frame.rows[i]) \cup {col} |->
                           IF c = col THEN src.rows[i][file_col] ELSE frame.rows[i][c]]]]

RECURSIVE mapping_loop(_, _, _, _)
mapping_loop(mapped_df, src, mapping, k) ==
    IF k > Len(src.cols) THEN mapped_df
    ELSE LET file_col == src.cols[k]
             table_col == mapping[file_col]
         IN mapping_loop(IF table_col # "Skip"
                         THEN setitem(mapped_df, table_col, src, file_col)
                         ELSE mapped_df,
                         src, mapping, k + 1)

apply_mapping(df, mapping) == mapping_loop(EmptyFrame, df, mapping, 1)

(***************************************************************************)
(* The remote store as the client library presents it: a call returns or   *)
(* raises; exc is the message of the exception, Returned when none.        *)
(***************************************************************************)
store_select(tbl, limit) == SubSeq(tbl, 1, Min(limit, Len(tbl)))

Matching(tbl, id_column, id_value) ==
    {i \in 1..Len(tbl) : id_column \in DOMAIN tbl[i] /\ tbl[i][id_column] = id_value}

store_update(tbl, id_column, id_value, data) ==
    [i \in 1..Len(tbl) |->
        IF i \in Matching(tbl, id_column, id_value)
        THEN [c \in DOMAIN tbl[i] |-> IF c \in DOMAIN data THEN data[c] ELSE tbl[i][c]]
        ELSE tbl[i]]

store_delete(tbl, id_column, id_value) ==
    SelectSeq(tbl, LAMBDA r : ~(id_column \in DOMAIN r /\ r[id_column] = id_value))

\* a column the record does not give is stored as NULL
store_insert(tbl, records) ==
    tbl \o [i \in 1..Len(records) |->
               [c \in Range(TableCols) |->
                   IF c \in DOMAIN records[i] THEN records[i][c] ELSE NaN]]

Call(op, name, payload) == [op |-> op, table |-> name, payload |-> payload]
Msg(kind, text) == [kind |-> kind, text |-> text]

\* pd.DataFrame(response.data): the columns are the keys of the rows
DataFrame(data) ==
    IF data = <<>> THEN EmptyFrame ELSE [cols |-> TableCols, rows |-> data]

(***************************************************************************)
(* The facade functions of app.py.                                         *)
(***************************************************************************)
get_tables(exc) ==
    IF exc # Returned
    THEN [ret |-> <<>>, shown |-> <<Msg("error", "Could not fetch tables: " \o exc)>>,
          calls |-> <<Call("select", "information_schema.tables", <<>>)>>]
    ELSE [ret |-> <<"items">>, shown |-> <<>>,
          calls |-> <<Call("select", "information_schema.tables", <<>>)>>]

get_table_data(tbl, name, limit, exc) ==
    IF exc # Returned
    THEN [ret |-> EmptyFrame, shown |-> <<Msg("error", "Error fetching data: " \o exc)>>,
          calls |-> <<Call("select", name, <<>>)>>]
    ELSE LET data == store_select(tbl, limit)
         IN [ret |-> IF data # <<>> THEN DataFrame(data) ELSE EmptyFrame,
             shown |-> <<>>, calls |-> <<Call("select", name, <<>>)>>]

get_table_columns_assumed(tbl, name, exc) ==
    [ret |-> TableCols,
     shown |-> IF exc # Returned
               THEN <<Msg("error", "Error fetching columns: " \o exc)>> ELSE <<>>,
     calls |-> <<Call("select", name, <<>>)>>]

get_table_columns(tbl, name, exc) ==
    IF exc # Returned
    THEN [ret |-> <<>>, shown |-> <<Msg("error", "Error fetching columns: " \o exc)>>,
          calls |-> <<Call("select", name, <<>>)>>]
    ELSE LET data == store_select(tbl, 1)
         IN [ret |-> IF data # <<>> THEN TableCols ELSE <<>>,
             shown |-> <<>>, calls |-> <<Call("select", name, <<>>)>>]

insert_record(tbl, name, data, exc) ==
    IF exc # Returned
    THEN [ret |-> <<FALSE, "Error inserting record: " \o exc>>, table |-> tbl,
          calls |-> <<Call("insert", name, <<data>>)>>]
    ELSE [ret |-> <<TRUE, "Record inserted successfully!">>,
          table |-> store_insert(tbl, <<data>>),
          calls |-> <<Call("insert", name, <<data>>)>>]

bulk_insert_records_retry(name, dataframe, exc) ==
    LET records == to_dict_records(dataframe)
    IN IF exc # Returned
       THEN [ret |-> <<FALSE, "Error in bulk insert: " \o exc>>,
             calls |-> <<Call("insert", name, records), Call("insert", name, records)>>]
       ELSE [ret |-> <<TRUE, "Successfully inserted " \o ToString(Len(records)) \o " records!">>,
             calls |-> <<Call("insert", name, records)>>]

bulk_insert_records_ncols(name, dataframe, exc) ==
    LET records == to_dict_records(dataframe)
    IN IF exc # Returned
       THEN [ret |-> <<FALSE, "Error in bulk insert: " \o exc>>,
             calls |-> <<Call("insert", name, records)>>]
       ELSE [ret |-> <<TRUE, "Successfully inserted " \o ToString(Len(dataframe.cols)) \o " records!">>,
             calls |-> <<Call("insert", name, records)>>]

bulk_insert_records(name, dataframe, exc) ==
    LET records == to_dict_records(dataframe)
    IN IF exc # Returned
       THEN [ret |-> <<FALSE, "Error in bulk insert: " \o exc>>,
             calls |-> <<Call("insert", name, records)>>]
       ELSE [ret |-> <<TRUE, "Successfully inserted " \o ToString(Len(records)) \o " records!">>,
             calls |-> <<Call("insert", name, records)>>]

update_record_checked(tbl, name, record_id, id_column, data, exc) ==
    IF exc # Returned \/ Matching(tbl, id_column, record_id) = {}
    THEN [ret |-> <<FALSE, "Error updating record: " \o exc>>, table |-> tbl,
          calls |-> <<Call("update", name, <<data>>)>>]
    ELSE [ret |-> <<TRUE, "Record updated successfully!">>,
          table |-> store_update(tbl, id_column, record_id, data),
          calls |-> <<Call("update", name, <<data>>)>>]

update_record(tbl, name, record_id, id_column, data, exc) ==
    IF exc # Returned
    THEN [ret |-> <<FALSE, "Error updating record: " \o exc>>, table |-> tbl,
          calls |-> <<Call("update", name, <<data>>)>>]
    ELSE [ret |-> <<TRUE, "Record updated successfully!">>,
          table |-> store_update(tbl, id_column, record_id, data),
          calls |-> <<Call("update", name, <<data>>)>>]

delete_record(tbl, name, record_id, id_column, exc) ==
    IF exc # Returned
    THEN [ret |-> <<FALSE, "Error deleting record: " \o exc>>, table |-> tbl,
          calls |-> <<Call("delete", name, <<>>)>>]
    ELSE [ret |-> <<TRUE, "Record deleted successfully!">>,
          table |-> store_delete(tbl, id_column, record_id),
          calls |-> <<Call("delete", name, <<>>)>>]

(***************************************************************************)
(* Streamlit widgets.                                                      *)
(***************************************************************************)
NoLimitWidget == [max |-> 0, value |-> 0]

\* st.number_input(min_value, max_value, value) without a key: the widget is
\* identified by its arguments, so a session value survives only while they
\* are the same; a default outside [min_value, max_value] raises.
number_input(min_value, max_value, value, session) ==
    IF value < min_value \/ value > max_value
    THEN [raised |-> TRUE,
          exc |-> "The value " \o ToString(value) \o " is less than the min_value "
                  \o ToString(min_value),
          value |-> value, session |-> NoLimitWidget]
    ELSE LET v == IF session.max = max_value THEN session.value ELSE value
         IN [raised |-> FALSE, exc |-> "", value |-> v,
             session |-> [max |-> max_value, value |-> v]]

\* the selectboxes map_<file_col>, first option "Skip"
mapping_widgets(file_columns, session) ==
    [c \in Range(file_columns) |-> IF c \in DOMAIN session THEN session[c] ELSE "Skip"]

Widgets == [table_name |-> table_name, uploaded_file |-> uploaded_file,
            map_columns |-> map_columns, column_mapping |-> column_mapping,
            remove_empty |-> remove_empty, limit_widget |-> limit_widget]

(***************************************************************************)
(* Tab 5, Bulk Upload (app.py:349-477), one run of it.                     *)
(***************************************************************************)
TabEnd(stage_, calls_, shown_, src, df, result, mapc, mapping, rem, lim) ==
    [stage |-> stage_, calls |-> calls_, shown |-> shown_, df_source |-> src,
     df_upload |-> df, upload_result |-> result, map_columns |-> mapc,
     column_mapping |-> mapping, remove_empty |-> rem, limit_widget |-> lim]

\* lines 416-448: clean, limit, upload
clean_and_upload(name, w, btn, exc_ins, df1, calls0, shown0, mapc, mapping) ==
    LET d == IF w.remove_empty THEN dropna(df1) ELSE [self |-> df1, out |-> df1]
        shown1 == IF w.remove_empty
                  THEN shown0 \o <<Msg("info", "Rows after cleaning: " \o ToString(Len(d.out.rows)))>>
                  ELSE shown0
        ni == number_input(1, Len(d.out.rows), Len(d.out.rows), w.limit_widget)
    IN IF ni.raised
       THEN TabEnd("limit_error", calls0,
                   shown1 \o <<Msg("error", "Error reading file: " \o ni.exc)>>,
                   d.self, d.out, <<>>, mapc, mapping, w.remove_empty, NoLimitWidget)
       ELSE LET h == head(d.out, ni.value)
                src == IF w.remove_empty THEN d.self ELSE h.self
            IN IF btn = "Upload"
               THEN LET b == bulk_insert_records(name, h.out, exc_ins)
                    IN TabEnd("ready", calls0 \o b.calls,
                              shown1 \o <<Msg(IF b.ret[1] THEN "success" ELSE "error", b.ret[2])>>,
                              src, h.out, <<b.ret>>, mapc, mapping, w.remove_empty, ni.session)
               ELSE TabEnd("ready", calls0, shown1, src, h.out, <<>>, mapc, mapping,
                           w.remove_empty, ni.session)

\* lines 376-414: table columns, matching columns, manual mapping
reconcile(w, btn, loaded, table_columns) ==
    LET file_columns == loaded.cols
        matching_cols == Range(file_columns) \cap Range(table_columns)
        mapping == IF w.map_columns THEN mapping_widgets(file_columns, w.column_mapping)
                   ELSE <<>>
        applied == w.map_columns /\ btn = "Apply Mapping"
    IN [matching_cols |-> matching_cols, mapping |-> mapping, applied |-> applied,
        out |-> IF applied THEN apply_mapping(loaded, mapping) ELSE loaded]

bulk_upload_tab(tbl, name, w, btn, exc_cols, exc_ins) ==
    IF ~w.uploaded_file.present
    THEN LET s == get_table_columns(tbl, name, exc_cols)
         IN TabEnd("no_file", s.calls,
                   <<Msg("info", "Upload a file to begin bulk insert")>> \o s.shown,
                   EmptyFrame, EmptyFrame, <<>>, FALSE, <<>>, FALSE, NoLimitWidget)
    ELSE LET rd == read_csv(w.uploaded_file)
         IN IF rd.raised
            THEN TabEnd("read_error", <<>>,
                        <<Msg("error", "Error reading file: " \o rd.exc)>>,
                        EmptyFrame, EmptyFrame, <<>>, FALSE, <<>>, FALSE, NoLimitWidget)
            ELSE LET s == get_table_columns(tbl, name, exc_cols)
                     shown0 == <<Msg("success", "File loaded successfully! Found "
                                     \o ToString(Len(rd.out.rows)) \o " rows")>> \o s.shown
                 IN IF s.ret = <<>>
                    THEN TabEnd("no_columns", s.calls,
                                shown0 \o <<Msg("error", "Could not retrieve table columns")>>,
                                EmptyFrame, rd.out, <<>>, FALSE, <<>>, FALSE, NoLimitWidget)
                    ELSE LET r == reconcile(w, btn, rd.out, s.ret)
                         IN clean_and_upload(name, w, btn, exc_ins, r.out, s.calls,
                                IF r.applied
                                THEN shown0 \o <<Msg("success", "Column mapping applied!")>>
                                ELSE shown0,
                                w.map_columns, r.mapping)

(***************************************************************************)
(* Tab 2, Add Record (app.py:181-227), one run of it.  form is what the    *)
(* text inputs of the form hold, one value per column, "" for an input     *)
(* left empty; the submit button is True only in the run its click caused. *)
(***************************************************************************)
RECURSIVE join(_, _)
join(sep, s) ==
    IF s = <<>> THEN ""
    ELSE IF Len(s) = 1 THEN s[1] ELSE s[1] \o sep \o join(sep, Tail(s))

\* lines 196 and 215; the column names of the model are in lower case
auto_generated(col) == col \in {"id", "created_at", "updated_at"}

AddEnd(stage_, calls_, shown_, ret_, data_) ==
    [stage |-> stage_, calls |-> calls_, shown |-> shown_, ret |-> ret_, data |-> data_]

\* lines 214-215: the inputs that hold a value
clean_data(record_data) ==
    [k \in {c \in DOMAIN record_data : record_data[c] # "" /\ ~auto_generated(c)}
        |-> record_data[k]]

add_record_tab(tbl, name, btn, form, exc_cols, exc_ins) ==
    LET s == get_table_columns(tbl, name, exc_cols)
        columns == s.ret
        shown0 == s.shown \o <<Msg("info", "Available columns: " \o join(", ", columns))>>
        record_data == [c \in {col \in Range(columns) : ~auto_generated(col)} |-> form[c]]
        data == clean_data(record_data)
    IN IF columns # <<>>
       THEN IF btn = "Add Record"
            THEN IF DOMAIN data # {}
                 THEN LET r == insert_record(tbl, name, data, exc_ins)
                      IN AddEnd("submitted", s.calls \o r.calls,
                                shown0 \o <<Msg(IF r.ret[1] THEN "success" ELSE "error",
                                                r.ret[2])>>,
                                r.ret, data)
                 ELSE AddEnd("empty_form", s.calls,
                             shown0 \o <<Msg("warning", "Please fill in at least one field")>>,
                             <<>>, <<>>)
            ELSE AddEnd("form", s.calls, shown0, <<>>, <<>>)
       ELSE AddEnd("no_columns", s.calls,
                   s.shown \o <<Msg("error", "Could not retrieve table columns. "
                                             \o "Please check if the table exists.")>>,
                   <<>>, <<>>)

\* what the last facade call was given and how the remote call ended
LastCall(op, limit, record_id, id_column, data, exc, matched, before) ==
    [op |-> op, limit |-> limit, record_id |-> record_id, id_column |-> id_column,
     data |-> data, exc |-> exc, matched |-> matched, before |-> before]

(***************************************************************************)
(* One run of the script (app.py:31, 98-477) with the session's widgets w, *)
(* the values form of the add-record form and the clicked button btn.      *)
(* exc_add is what the read of the add-record tab does in the run,         *)
(* exc_cols what the read of the bulk-upload tab does, exc_ins what the    *)
(* insert of the run does (a run has one button, so at most one insert).   *)
(***************************************************************************)
\* Tabs 1, 3 and 4 (lines 147, 233, 303) each read the table in every run; the
\* reads catch their exceptions and their results stay in their tabs.
other_tabs_calls(name) ==
    <<Call("select", name, <<>>), Call("select", name, <<>>), Call("select", name, <<>>)>>

\* the tabs run in the order of the script; tab is the bulk-upload tab with the
\* calls and the messages of the whole run
main(tbl, w, btn, form, exc_add, exc_cols, exc_ins) ==
    IF w.table_name = ""
    THEN [add |-> AddEnd("no_table", <<>>, <<>>, <<>>, <<>>),
          tab |-> TabEnd("no_table", <<>>, <<>>, EmptyFrame, EmptyFrame, <<>>, FALSE, <<>>,
                         FALSE, NoLimitWidget)]
    ELSE LET a == add_record_tab(tbl, w.table_name, btn, form, exc_add, exc_ins)
             t == bulk_upload_tab(tbl, w.table_name, w, btn, exc_cols, exc_ins)
             o == other_tabs_calls(w.table_name)
         IN [add |-> a,
             tab |-> [t EXCEPT !.calls = <<o[1]>> \o a.calls \o <<o[2], o[3]>> \o @,
                               !.shown = a.shown \o @]]

script_run(cache, tbl, w, btn, form, exc_add, exc_cols, exc_ins) ==
    LET i == init_supabase(cache)
    IN IF i.stopped
       THEN [client |-> i.client, created |-> i.created, pc |-> "stopped",
             add |-> AddEnd("stopped", <<>>, <<>>, <<>>, <<>>),
             tab |-> TabEnd("stopped", <<>>, i.shown, EmptyFrame, EmptyFrame, <<>>, FALSE,
                            <<>>, FALSE, NoLimitWidget)]
       ELSE LET m == main(tbl, w, btn, form, exc_add, exc_cols, exc_ins)
            IN [client |-> i.client, created |-> i.created, pc |-> "main",
                add |-> m.add, tab |-> m.tab]

\* the session after a run: widgets the run did not render lose their values
Finish(r, created, w, btn, exc_ins, kept) ==
    /\ supabase' = r.client
    /\ n_created' = n_created + created
    /\ pc' = r.pc
    /\ button' = btn
    /\ table_name' = w.table_name
    /\ uploaded_file' = w.uploaded_file
    /\ stage' = r.tab.stage
    /\ add_stage' = r.add.stage
    /\ calls' = r.tab.calls
    /\ shown' = r.tab.shown
    /\ df_source' = r.tab.df_source
    /\ df_upload' = r.tab.df_upload
    /\ upload_result' = r.tab.upload_result
    /\ map_columns' = r.tab.map_columns
    /\ column_mapping' = r.tab.column_mapping
    /\ remove_empty' = r.tab.remove_empty
    /\ limit_widget' = r.tab.limit_widget
    /\ kept <= Len(r.tab.df_upload.rows)
    /\ persisted' = kept
    /\ last' = IF r.tab.upload_result # <<>>
               THEN LastCall("bulk_insert_records", 0, "", "", <<>>, exc_ins, 0, <<>>)
               ELSE IF r.add.ret # <<>>
               THEN LastCall("insert_record", 0, "", "", r.add.data, exc_ins, 0, <<>>)
               ELSE [op |-> "none"]
    /\ ret' = r.add.ret
    /\ UNCHANGED <<config_vars, table>>

\* the add-record form with every input left empty
EmptyForm == [c \in Range(TableCols) |-> ""]

\* kept is how many records the store keeps of a bulk insert that returns
RunForm(w, btn, form) ==
    \E exc_add \in Outcomes, exc_cols \in Outcomes, exc_ins \in Outcomes,
       kept \in 0..MaxFileRows :
        /\ btn \notin {"Upload", "Add Record"} => exc_ins = Returned
        /\ btn # "Upload" => kept = 0
        /\ exc_ins # Returned => kept = 0
        /\ \E r \in {script_run(supabase, table, w, btn, form, exc_add, exc_cols, exc_ins)} :
              /\ r.tab.upload_result = <<>> => kept = 0
              /\ r.tab.upload_result = <<>> /\ r.add.ret = <<>> => exc_ins = Returned
              /\ Finish(r, r.created, w, btn, exc_ins, kept)

Run(w, btn) == RunForm(w, btn, EmptyForm)

Rendered == pc = "main" /\ stage \in {"ready", "limit_error"}

\* the browser loads or reloads the page
LoadPage == Run(Widgets, "None")

SetTableName(n) ==
    /\ pc = "main"
    /\ n # table_name
    /\ Run([Widgets EXCEPT !.table_name = n], "None")

\* A file dropped on an uploader that holds one replaces it and keeps the other
\* widgets' values; every state that reaches is also reached by removing the
\* old file, uploading the new one and setting the widgets again.
UploadFile(f) ==
    /\ pc = "main" /\ stage # "no_table"
    /\ ~uploaded_file.present
    /\ Run([Widgets EXCEPT !.uploaded_file = f], "None")

RemoveFile ==
    /\ pc = "main" /\ uploaded_file.present
    /\ Run([Widgets EXCEPT !.uploaded_file = NoFile], "None")

ToggleMapColumns ==
    /\ Rendered
    /\ Run([Widgets EXCEPT !.map_columns = ~map_columns], "None")

SelectMapping(c, t) ==
    /\ Rendered /\ map_columns
    /\ c \in DOMAIN column_mapping /\ column_mapping[c] # t
    /\ Run([Widgets EXCEPT !.column_mapping = [column_mapping EXCEPT ![c] = t]], "None")

ClickApplyMapping ==
    /\ Rendered /\ map_columns
    /\ Run(Widgets, "Apply Mapping")

ToggleRemoveEmpty ==
    /\ Rendered
    /\ Run([Widgets EXCEPT !.remove_empty = ~remove_empty], "None")

SetUploadLimit(n) ==
    /\ pc = "main" /\ stage = "ready"
    /\ n \in 1..limit_widget.max /\ n # limit_widget.value
    /\ Run([Widgets EXCEPT !.limit_widget = [max |-> limit_widget.max, value |-> n]], "None")

ClickUpload ==
    /\ pc = "main" /\ stage = "ready"
    /\ Run(Widgets, "Upload")

\* "Clear": the run the click causes calls st.rerun() at line 452, if it gets
\* there, and the script runs again at once with no button clicked
ClickClear ==
    /\ pc = "main" /\ stage = "ready"
    /\ \E exc1 \in Outcomes, exc2 \in Outcomes, add1 \in Outcomes, add2 \in Outcomes :
          \E r1 \in {script_run(supabase, table, Widgets, "Clear", EmptyForm, add1, exc1,
                                 Returned)} :
              IF r1.tab.stage = "ready"
              THEN \E r2 \in {script_run(r1.client, table,
                                         [Widgets EXCEPT !.map_columns = r1.tab.map_columns,
                                                         !.column_mapping = r1.tab.column_mapping,
                                                         !.remove_empty = r1.tab.remove_empty,
                                                         !.limit_widget = r1.tab.limit_widget],
                                         "None", EmptyForm, add2, exc2, Returned)} :
                      Finish(r2, r1.created + r2.created, Widgets, "None", Returned, 0)
              ELSE /\ exc2 = Returned /\ add2 = Returned
                   /\ Finish(r1, r1.created, Widgets, "Clear", Returned, 0)

\* "Add Record": the form sends the values of its inputs with the click; the
\* form is on the page when the last run found columns at line 187
FormValues == {"", "a"}

SubmitAddRecord(form) ==
    /\ pc = "main" /\ add_stage \in {"form", "submitted", "empty_form"}
    /\ RunForm(Widgets, "Add Record", form)

EnvValues == {None, "", "set"}

Init ==
    /\ SUPABASE_URL \in EnvValues
    /\ SUPABASE_KEY \in EnvValues
    /\ supabase = None
    /\ n_created = 0
    /\ pc = "start"
    /\ table \in {<<>>, <<[name |-> "a", email |-> "b"]>>}
    /\ table_name = ""
    /\ uploaded_file = NoFile
    /\ map_columns = FALSE
    /\ column_mapping = <<>>
    /\ remove_empty = FALSE
    /\ limit_widget = NoLimitWidget
    /\ button = "None"
    /\ stage = "start"
    /\ add_stage = "start"
    /\ df_source = EmptyFrame
    /\ df_upload = EmptyFrame
    /\ calls = <<>>
    /\ shown = <<>>
    /\ upload_result = <<>>
    /\ persisted = 0
    /\ last = [op |-> "none"]
    /\ ret = <<>>

Next ==
    \/ LoadPage
    \/ \E n \in {"", "items"} : SetTableName(n)
    \/ \E f \in Files : UploadFile(f)
    \/ RemoveFile
    \/ ToggleMapColumns
    \/ \E c \in FileColNames, t \in {"Skip"} \cup Range(TableCols) : SelectMapping(c, t)
    \/ ClickApplyMapping
    \/ ToggleRemoveEmpty
    \/ \E n \in 1..MaxFileRows : SetUploadLimit(n)
    \/ ClickUpload
    \/ ClickClear
    \/ \E form \in [Range(TableCols) -> FormValues] : SubmitAddRecord(form)

Spec == Init /\ [][Next]_vars

(***************************************************************************)
(* The facade functions called directly: main() runs, and with it every    *)
(* facade function, only in a run of the script that got past line 31.     *)
(***************************************************************************)
IdValues == {"a", "b"}
PartialRecords ==
    UNION {[S -> IdValues] : S \in (SUBSET Range(TableCols)) \ {{}}}

\* line 31 of one run of the script
StartScript ==
    /\ LET i == init_supabase(supabase)
       IN /\ supabase' = i.client
          /\ n_created' = n_created + i.created
          /\ pc' = IF i.stopped THEN "stopped" ELSE "main"
          /\ shown' = i.shown
    /\ calls' = <<>>
    /\ last' = [op |-> "none"]
    /\ ret' = <<>>
    /\ UNCHANGED <<config_vars, table, widget_vars, tab_vars, persisted>>

FacadeFrame == UNCHANGED <<config_vars, supabase, n_created, pc, widget_vars, tab_vars,
                           persisted>>

CallGetTables(exc) ==
    /\ pc = "main"
    /\ \E r \in {get_tables(exc)} :
        /\ ret' = r.ret /\ shown' = r.shown /\ calls' = r.calls
        /\ last' = LastCall("get_tables", 0, "", "", <<>>, exc, 0, table)
    /\ UNCHANGED table
    /\ FacadeFrame

CallGetTableData(limit, exc) ==
    /\ pc = "main"
    /\ \E r \in {get_table_data(table, "items", limit, exc)} :
        /\ ret' = r.ret /\ shown' = r.shown /\ calls' = r.calls
        /\ last' = LastCall("get_table_data", limit, "", "", <<>>, exc, 0, table)
    /\ UNCHANGED table
    /\ FacadeFrame

CallGetTableColumns(exc) ==
    /\ pc = "main"
    /\ \E r \in {get_table_columns(table, "items", exc)} :
        /\ ret' = r.ret /\ shown' = r.shown /\ calls' = r.calls
        /\ last' = LastCall("get_table_columns", 1, "", "", <<>>, exc, 0, table)
    /\ UNCHANGED table
    /\ FacadeFrame

CallInsertRecord(data, exc) ==
    /\ pc = "main"
    /\ Len(table) < MaxTableRows
    /\ \E r \in {insert_record(table, "items", data, exc)} :
        /\ ret' = r.ret /\ shown' = <<>> /\ calls' = r.calls /\ table' = r.table
        /\ last' = LastCall("insert_record", 0, "", "", data, exc, 0, table)
    /\ FacadeFrame

CallUpdateRecord(record_id, id_column, data, exc) ==
    /\ pc = "main"
    /\ \E r \in {update_record(table, "items", record_id, id_column, data, exc)} :
        /\ ret' = r.ret /\ shown' = <<>> /\ calls' = r.calls /\ table' = r.table
        /\ last' = LastCall("update_record", 0, record_id, id_column, data, exc,
                            Cardinality(Matching(table, id_column, record_id)), table)
    /\ FacadeFrame

CallDeleteRecord(record_id, id_column, exc) ==
    /\ pc = "main"
    /\ \E r \in {delete_record(table, "items", record_id, id_column, exc)} :
        /\ ret' = r.ret /\ shown' = <<>> /\ calls' = r.calls /\ table' = r.table
        /\ last' = LastCall("delete_record", 0, record_id, id_column, <<>>, exc,
                            Cardinality(Matching(table, id_column, record_id)), table)
    /\ FacadeFrame

InitFacade ==
    /\ SUPABASE_URL \in EnvValues
    /\ SUPABASE_KEY \in EnvValues
    /\ supabase = None
    /\ n_created = 0
    /\ pc = "start"
    /\ table \in SeqsUpTo(StoreRows, MaxTableRows)
    /\ table_name = "items"
    /\ uploaded_file = NoFile
    /\ map_columns = FALSE
    /\ column_mapping = <<>>
    /\ remove_empty = FALSE
    /\ limit_widget = NoLimitWidget
    /\ button = "None"
    /\ stage = "start"
    /\ add_stage = "start"
    /\ df_source = EmptyFrame
    /\ df_upload = EmptyFrame
    /\ calls = <<>>
    /\ shown = <<>>
    /\ upload_result = <<>>
    /\ persisted = 0
    /\ last = [op |-> "none"]
    /\ ret = <<>>

NextFacade ==
    \/ StartScript
    \/ \E exc \in Outcomes : CallGetTables(exc)
    \/ \E limit \in 1..MaxLimit, exc \in Outcomes : CallGetTableData(limit, exc)
    \/ \E exc \in Outcomes : CallGetTableColumns(exc)
    \/ \E data \in PartialRecords, exc \in Outcomes : CallInsertRecord(data, exc)
    \/ \E record_id \in IdValues, id_column \in Range(TableCols),
          data \in PartialRecords, exc \in Outcomes :
            CallUpdateRecord(record_id, id_column, data, exc)
    \/ \E record_id \in IdValues, id_column \in Range(TableCols), exc \in Outcomes :
            CallDeleteRecord(record_id, id_column, exc)

SpecFacade == InitFacade /\ [][NextFacade]_vars

(***************************************************************************)
(* Properties of the bulk-upload tab, specification Spec.                  *)
(***************************************************************************)
InsertCalls == {i \in DOMAIN calls : calls[i].op = "insert"}
MatchingCols == Range(uploaded_file.cols) \cap Range(TableCols)
FileFrame == [cols |-> uploaded_file.cols, rows |-> uploaded_file.rows]
Uploading == pc = "main" /\ stage = "ready" /\ button = "Upload"

\* C1: without manual mapping, every record of the insert call has exactly the
\* columns that the file and the table share; a file-only column is never sent.
C1_UnmappedInsertWithinTable ==
    (Uploading /\ ~map_columns) =>
        \A i \in InsertCalls : \A j \in DOMAIN calls[i].payload :
            DOMAIN calls[i].payload[j] = MatchingCols

\* C2: an upload that follows Apply Mapping sends the mapped frame: every record
\* of the insert call has exactly the destination columns of the mapping, and no
\* column mapped to Skip.
MappedCols(mapping) == {mapping[c] : c \in {d \in DOMAIN mapping : mapping[d] # "Skip"}}

C2_UploadSendsMappedFrame ==
    [][(pc = "main" /\ stage = "ready" /\ button = "Apply Mapping"
        /\ button' = "Upload" /\ stage' = "ready")
       => \A i \in DOMAIN calls' : calls'[i].op = "insert" =>
             \A j \in DOMAIN calls'[i].payload :
                 DOMAIN calls'[i].payload[j] = MappedCols(column_mapping')]_vars

\* C3: an upload issues exactly one insert call, the last call of the run, with
\* the whole final frame; when the call returns, the result is success with the
\* number of records of that frame, whatever the store kept.
C3_OneInsertCountIsInputLength ==
    Uploading =>
        /\ Cardinality(InsertCalls) = 1
        /\ calls[Len(calls)] = Call("insert", table_name, df_upload.rows)
        /\ Len(upload_result) = 1
        /\ last.exc = Returned =>
              upload_result[1] = <<TRUE, "Successfully inserted "
                                         \o ToString(Len(df_upload.rows)) \o " records!">>

C3_Witness ==
    /\ Uploading /\ last.exc = Returned
    /\ Len(df_upload.rows) = 2 /\ persisted < 2
    /\ upload_result[1][1]

\* C4 as stated: when the insert call raises, the failure message is the
\* transport message and nothing else, one insert call was made, and no success
\* is reported.
C4_FailureMessageVerbatim ==
    (Uploading /\ last.exc # Returned) =>
        /\ upload_result = << <<FALSE, last.exc>> >>
        /\ Cardinality(InsertCalls) = 1
        /\ shown[Len(shown)].kind = "error"

\* C4 amended: when the insert call raises, the failure message is
\* "Error in bulk insert: " followed by the transport message, exactly one
\* insert call was made, and the run ends with that error shown, not a success.
C4_FailureMessagePrefixed ==
    (Uploading /\ last.exc # Returned) =>
        /\ upload_result = << <<FALSE, "Error in bulk insert: " \o last.exc>> >>
        /\ Cardinality(InsertCalls) = 1
        /\ shown[Len(shown)] = Msg("error", "Error in bulk insert: " \o last.exc)
        /\ \A i \in DOMAIN shown :
              shown[i].kind = "success" => shown[i].text = "File loaded successfully! Found "
                                              \o ToString(Len(uploaded_file.rows)) \o " rows"

C4_Witness ==
    /\ Uploading /\ last.exc \in ErrMsgs
    /\ upload_result = << <<FALSE, "Error in bulk insert: " \o last.exc>> >>
    /\ Len(df_upload.rows) = 2

\* C5: with "remove rows with empty values" on and no manual mapping, the rows
\* that remain are those without a null in a column shared with the table, in
\* file order; a null in a file-only column does not remove a row.
CompleteInMatching(r) == \A c \in MatchingCols : r[c] # NaN

C5_DropIncompleteAfterProjection ==
    (pc = "main" /\ stage \in {"ready", "limit_error"} /\ remove_empty /\ ~map_columns
     /\ limit_widget.value = limit_widget.max) =>
        LET expected == SelectSeq(uploaded_file.rows, CompleteInMatching)
        IN /\ Len(df_upload.rows) = Len(expected)
           /\ \A i \in DOMAIN expected : \A c \in MatchingCols :
                 df_upload.rows[i][c] = expected[i][c]

\* C6: a frame without rows (every limit is out of range) is reported as an
\* invalid limit, not as a failure to read the file, and no remote insert is
\* made; with rows, the first n remain for the chosen n.
ReadErrorPrefix == "Error reading file: "
IsReadError(m) ==
    /\ m.kind = "error"
    /\ Len(m.text) >= Len(ReadErrorPrefix)
    /\ SubSeq(m.text, 1, Len(ReadErrorPrefix)) = ReadErrorPrefix

C6_EmptyFrameReportedAsInvalidLimit ==
    /\ (pc = "main" /\ stage = "limit_error") =>
          /\ InsertCalls = {}
          /\ shown # <<>>
          /\ shown[Len(shown)].kind = "error"
          /\ ~IsReadError(shown[Len(shown)])
    /\ (pc = "main" /\ stage = "ready") =>
          /\ limit_widget.value \in 1..limit_widget.max
          /\ Len(df_upload.rows) = limit_widget.value

\* C10: the cleaner leaves the frame it is given as it was (the reconciled
\* frame of the uploaded file), its output is the cleaning of that frame under
\* the current options, and a run with the same source and the same options
\* gives the same output again.
Reconciled ==
    IF map_columns /\ button = "Apply Mapping"
    THEN apply_mapping(FileFrame, column_mapping)
    ELSE FileFrame

Cleaned(src, drop_incomplete, n) ==
    LET kept == IF drop_incomplete
                THEN SelectSeq(src.rows, LAMBDA r : ~(\E c \in DOMAIN r : r[c] = NaN))
                ELSE src.rows
    IN [cols |-> src.cols, rows |-> [i \in 1..n |-> kept[i]]]

CleanerLeavesSource ==
    (pc = "main" /\ stage = "ready") =>
        /\ df_source = Reconciled
        /\ df_upload = Cleaned(df_source, remove_empty, limit_widget.value)

C10_CleanerNonDestructive ==
    /\ []CleanerLeavesSource
    /\ [][(pc = "main" /\ stage = "ready" /\ stage' = "ready"
           /\ df_source' = df_source /\ remove_empty' = remove_empty
           /\ limit_widget'.value = limit_widget.value)
          => df_upload' = df_upload]_vars

C10_Witness ==
    /\ pc = "main" /\ stage = "ready" /\ remove_empty
    /\ Len(df_source.rows) = 2 /\ Len(df_upload.rows) = 1
    /\ "extra" \in Range(df_source.cols)
    /\ df_source.rows[1]["extra"] = NaN

(***************************************************************************)
(* Properties of the facade functions and of the start of the script,      *)
(* specification SpecFacade.                                               *)
(***************************************************************************)
\* C7: update_record and delete_record return success exactly when the remote
\* call returns, with the same value whether or not any record matched
\* id_column = record_id, and failure exactly when the remote call raises.
C7_SuccessUnlessRaised ==
    /\ last.op = "update_record" =>
          /\ ret[1] = (last.exc = Returned)
          /\ last.exc = Returned => ret = <<TRUE, "Record updated successfully!">>
    /\ last.op = "delete_record" =>
          /\ ret[1] = (last.exc = Returned)
          /\ last.exc = Returned => ret = <<TRUE, "Record deleted successfully!">>

C7_Witness ==
    /\ last.op = "update_record" /\ last.exc = Returned
    /\ last.before # <<>> /\ last.matched = 0
    /\ table = last.before
    /\ ret[1]

\* C8: get_table_data returns at most limit rows, and what it returns when the
\* remote call raises is never the value it returns for a table without rows.
C8_FetchFailureDistinctFromEmpty ==
    last.op = "get_table_data" =>
        /\ Len(ret.rows) <= last.limit
        /\ last.exc # Returned => ret # get_table_data(<<>>, "items", last.limit, Returned).ret

\* C9: while the URL or the key is unset or empty the client is never created,
\* every run stops at line 31 and no facade call is made; with both set the
\* client is created once and no run stops there.
ConfigMissing == Falsy(SUPABASE_URL) \/ Falsy(SUPABASE_KEY)

C9_NoClientNoCallsWithoutConfig ==
    /\ ConfigMissing =>
          /\ supabase = None /\ n_created = 0
          /\ pc \in {"start", "stopped"}
          /\ calls = <<>> /\ last.op = "none"
    /\ ~ConfigMissing =>
          /\ n_created <= 1
          /\ pc # "stopped"
          /\ pc = "main" => supabase = "client" /\ n_created = 1
    /\ validate_config[1] = ~ConfigMissing

C9_Witness ==
    /\ pc = "stopped" /\ SUPABASE_URL = "set" /\ SUPABASE_KEY = ""
    /\ shown # <<>> /\ shown[1].kind = "error"

\* C11: a tab whose one-row sample of the table came back empty, because the
\* table has no row or because the sampling call failed, shows its "could not
\* retrieve table columns" error and issues no insert call; an insert call is
\* issued only by a submit of the add-record form or a click on "Upload" in a
\* run where that tab's own sample had columns, so for a table without rows no
\* sequence of user actions issues one.
NoColumnsAdd ==
    Msg("error", "Could not retrieve table columns. Please check if the table exists.")
NoColumnsBulk == Msg("error", "Could not retrieve table columns")
FetchErrors == {Msg("error", "Error fetching columns: " \o e) : e \in ErrMsgs}
Shown(m) == \E i \in DOMAIN shown : shown[i] = m

C11_NoInsertWithoutSchema ==
    pc = "main" =>
        /\ InsertCalls # {} =>
              \/ button = "Add Record" /\ add_stage = "submitted"
              \/ button = "Upload" /\ stage = "ready"
        /\ add_stage = "no_columns" =>
              /\ Shown(NoColumnsAdd) /\ ret = <<>>
              /\ button = "Add Record" => InsertCalls = {}
        /\ stage = "no_columns" =>
              /\ Shown(NoColumnsBulk) /\ upload_result = <<>>
              /\ button = "Upload" => InsertCalls = {}
        /\ (shown # <<>> /\ shown[1] \in FetchErrors) => add_stage = "no_columns"
        /\ (\E i \in DOMAIN shown : i > 1 /\ shown[i] \in FetchErrors) =>
              stage \in {"no_columns", "no_file"}
        /\ (table = <<>> /\ table_name # "") =>
              /\ InsertCalls = {}
              /\ add_stage = "no_columns"
              /\ stage \in {"no_columns", "no_file", "read_error"}

\* the table has no row, a file with rows is loaded, and both tabs stopped
C11_Witness ==
    /\ pc = "main" /\ table = <<>>
    /\ add_stage = "no_columns" /\ stage = "no_columns"
    /\ uploaded_file.present /\ Len(uploaded_file.rows) >= 1
    /\ Shown(NoColumnsAdd) /\ Shown(NoColumnsBulk)
    /\ InsertCalls = {}

\* the sampling call failed in a run caused by a submit of the add-record form
C11_WitnessFailedSample ==
    /\ pc = "main" /\ table # <<>>
    /\ button = "Add Record" /\ add_stage = "no_columns"
    /\ shown[1] \in FetchErrors
    /\ InsertCalls = {}

====
